---- MODULE Spec2Model ----
(***************************************************************************)
(* Email-verification token lifecycle of the events scheduler:             *)
(* users/views.py (RegisterView, ConfirmEmailView, SendConfirmationEmail,  *)
(* UserUpdateView), users/email.py (EmailVerification), users/tasks.py     *)
(* (send_verification_email), users/models.py (User, UserVerification,     *)
(* UserManager) and events_scheduler/utils.py (encrypt_token,              *)
(* decrypt_token).                                                         *)
(*                                                                         *)
(* The database tables are the shared state.  Every HTTP request and every *)
(* Celery task execution is a process whose database statements are        *)
(* separate atomic steps (Django autocommit, no transaction is opened by   *)
(* any of the views); what a request holds in Python objects is local      *)
(* state of its slot in reqs / tasks.                                      *)
(***************************************************************************)
EXTENDS Integers, FiniteSets, Sequences, TLC

\* ------------------------------------------------------------------ bounds
MaxUsers  == 2      \* rows the User table can hold
MaxTokens == 3      \* tokens secrets.token_hex can still hand out
MaxTasks  == 2      \* send_verification_email.delay calls over a run
MaxTime   == 2      \* clock ticks (hours) a run can last
NumReqs   == 2      \* HTTP requests in flight at the same time
MaxRequests == 3    \* requests (and createsuperuser commands) a run serves
MaxEvents == 2      \* rows the Event table can hold

\* ------------------------------------------------------- program constants
Hour        == 1    \* datetime.timedelta(hours=1); the clock counts hours
max_retries == 3    \* @app.task(..., max_retries=3, ...)

\* ------------------------------------------------------------------ values
NoUser   == 0         \* no row matched (DoesNotExist), nobody logged in
NoToken  == 0         \* token_email is None
NoTime   == -1        \* expiration_date_email_token is None
NoEmail  == "none"    \* the row does not exist

UserIds  == 1..MaxUsers
Tokens   == 1..MaxTokens
TaskIds  == 1..MaxTasks
ReqIds   == 1..NumReqs
Times    == 0..MaxTime
Emails   == {"a@x", "b@x"}
EventIds == 1..MaxEvents
NoEvent  == 0         \* Event.DoesNotExist

ENCRYPT_KEY == "k"             \* settings.ENCRYPT_KEY
Keys        == {"k", "other"}
IVs         == {0, 1}          \* Fernet draws a fresh IV for every encryption

VARIABLES
    users,          \* table User: id -> [email, verified, super]; email = NoEmail: no row
    verification,   \* table UserVerification: user id -> [exists, token_email, expiration]
    now,            \* timezone.now()
    nextToken,      \* the next value secrets.token_hex(128) returns
    reqs,           \* the HTTP requests in flight: slot -> local state
    tasks,          \* the Celery messages: task id -> state of the task
    mail,           \* event: the mail this step handed to send_mail, [to, link]
    last,           \* event: the response this step sent, [kind, outcome, user, tok]
    owner,          \* history: token -> the user it was issued for
    issuedFor,      \* history: token -> the email that user had when it was issued
    issuedAt,       \* history: user -> the instant the stored token was issued at
    consumed,       \* history: the tokens a Confirm has succeeded with
    inbox,          \* the links the mailer has delivered so far
    served,         \* the requests that have arrived so far
    crypt,          \* a call of encrypt_token / decrypt_token: [token, key, text, sealed, result]
    events,         \* table Event: id -> [exists, creator, date, participants_count]
    participation,  \* table Participation: event id -> user id -> number of rows
    ereqs           \* the requests to the events app in flight: slot -> local state

vars == <<users, verification, now, nextToken, reqs, tasks, mail, last, owner, issuedFor, issuedAt, consumed, inbox, served, crypt, events, participation, ereqs>>

\* what the views and the task of the users app never write
apart == <<crypt, events, participation, ereqs>>

\* what the views of the events app never write
usersApp == <<users, verification, now, nextToken, reqs, tasks, owner, issuedFor, issuedAt, consumed, inbox, served, crypt>>

hist == <<owner, issuedFor, issuedAt, consumed>>

db == <<users, verification>>

\* ------------------------------------------------------------------ cipher
\* A transport token is text: base64 armour around a Fernet frame that was
\* sealed under a key with a fresh IV.  AbsentLink is a request without one.
\* The armour is "b64" for the text urlsafe_b64encode wrote, "noisy" for that
\* text with characters outside the base64 alphabet put in (urlsafe_b64decode
\* discards them), "bad" for text whose padding is wrong.
AbsentLink == [armor |-> "absent", frame |-> "junk", key |-> "other", iv |-> 0, data |-> NoToken]

Links ==
    {AbsentLink} \cup
    [armor : {"b64", "noisy", "bad"}, frame : {"fernet", "junk"}, key : Keys, iv : IVs, data : Tokens]

\* an encryption that returns the frame without the base64 armour
encrypt_token_Bare(token, key, iv) ==
    [armor |-> "bad", frame |-> "fernet", key |-> key, iv |-> iv, data |-> token]

\* Fernet(key).encrypt(token.encode()), then urlsafe_b64encode(...).decode()
encrypt_token(token, key, iv) ==
    [armor |-> "b64", frame |-> "fernet", key |-> key, iv |-> iv, data |-> token]

\* a decryption that never checks which key sealed the frame
decrypt_token_AnyKey(token, key) ==
    IF token.armor \notin {"b64", "noisy"}
    THEN [ok |-> FALSE, error |-> "binascii.Error", value |-> NoToken]
    ELSE IF token.frame # "fernet"
    THEN [ok |-> FALSE, error |-> "InvalidToken", value |-> NoToken]
    ELSE [ok |-> TRUE, error |-> "none", value |-> token.data]

\* a decryption that hands out what it finds in a damaged frame
decrypt_token_Partial(token, key) ==
    IF token.armor \notin {"b64", "noisy"}
    THEN [ok |-> FALSE, error |-> "binascii.Error", value |-> NoToken]
    ELSE IF token.frame = "fernet" /\ token.key # key
    THEN [ok |-> FALSE, error |-> "InvalidToken", value |-> NoToken]
    ELSE [ok |-> TRUE, error |-> "none", value |-> token.data]

\* urlsafe_b64decode raises binascii.Error on text with incorrect padding
\* and skips characters that are not of the alphabet;
\* Fernet(key).decrypt raises InvalidToken on a frame not sealed under key.
decrypt_token(token, key) ==
    IF token.armor \notin {"b64", "noisy"}
    THEN [ok |-> FALSE, error |-> "binascii.Error", value |-> NoToken]
    ELSE IF token.frame # "fernet" \/ token.key # key
    THEN [ok |-> FALSE, error |-> "InvalidToken", value |-> NoToken]
    ELSE [ok |-> TRUE, error |-> "none", value |-> token.data]

\* Text made up without settings.ENCRYPT_KEY: no token at all, or what a
\* genuine link becomes when its base64 is broken, when its Fernet frame is
\* damaged, or when it is sealed under a key of the client's own.
Forged ==
    {AbsentLink} \cup
    {l \in Links : /\ l.iv = 0
                   /\ \/ l.armor = "bad" /\ l.frame = "fernet" /\ l.key = ENCRYPT_KEY
                      \/ l.armor = "b64" /\ l.frame = "junk" /\ l.key = ENCRYPT_KEY
                      \/ l.armor = "b64" /\ l.frame = "fernet" /\ l.key # ENCRYPT_KEY}

\* What a client can put in the query string: a link the mailer delivered,
\* or forged text.
Presentable == inbox \cup Forged

\* ------------------------------------------------------------ model rows
NoRow     == [email |-> NoEmail, verified |-> FALSE, super |-> FALSE]
NoRecord  == [exists |-> FALSE, token_email |-> NoToken, expiration |-> NoTime]
NewRecord == [exists |-> TRUE, token_email |-> NoToken, expiration |-> NoTime]

IdleReq == [kind |-> "idle", pc |-> "idle", user |-> NoUser, email |-> NoEmail,
            tok |-> NoToken, exp |-> NoTime]
NoTask  == [st |-> "none", email |-> NoEmail, tries |-> 0, user |-> NoUser,
            tok |-> NoToken, at |-> NoTime, origin |-> "none", issues |-> 0]
OverTask == [NoTask EXCEPT !.st = "over"]    \* succeeded, or given up after the retries
NoMail  == [to |-> NoEmail, link |-> AbsentLink]

NoEventRow == [exists |-> FALSE, creator |-> NoUser, date |-> NoTime, participants_count |-> 0]
IdleEReq   == [kind |-> "idle", pc |-> "idle", user |-> NoUser, event |-> NoEvent,
               date |-> NoTime, seen |-> 0]

NoResult == [ok |-> FALSE, error |-> "not called", value |-> NoToken]
NoCrypt  == [token |-> NoToken, key |-> ENCRYPT_KEY, text |-> AbsentLink,
             sealed |-> FALSE, result |-> NoResult]

Response(kind, outcome, user, tok) ==
    [kind |-> kind, outcome |-> outcome, user |-> user, tok |-> tok]

Exists(u) == users[u].email # NoEmail

\* User.objects.get(email=email)
UsersByEmail(email) == {u \in UserIds : Exists(u) /\ users[u].email = email}

\* the unique constraint on User.email, as seen by the row of user u
EmailTaken(email, u) == \E v \in UserIds : v # u /\ Exists(v) /\ users[v].email = email

\* a lookup that passes over rows whose token has expired
FindByToken_Fresh(plain) ==
    {u \in UserIds : /\ verification[u].exists
                     /\ verification[u].token_email = plain
                     /\ verification[u].expiration >= now}

\* UserVerification.objects.select_related('user').get(token_email=plain)
FindByToken(plain) ==
    {u \in UserIds : verification[u].exists /\ verification[u].token_email = plain}

\* is_email_token_expired with the comparison turned into "not after"
is_email_token_expired_Inclusive(expiration, t) ==
    IF expiration # NoTime THEN expiration <= t ELSE TRUE

\* UserVerification.is_email_token_expired
is_email_token_expired(expiration, t) ==
    IF expiration # NoTime THEN expiration < t ELSE TRUE

\* an expiry written without the timedelta
ExpirationDate_NoWindow(t) == t

\* timezone.now() + datetime.timedelta(hours=1)
ExpirationDate(t) == t + Hour

\* secrets.token_hex(128): 1024 random bits, a value never returned before
token_hex(n) == n

\* an issuance whose UPDATE names the token column alone
Issued_TokenOnly(rec, token, t) == [rec EXCEPT !.token_email = token]

\* an issuance that keeps the token a row already holds
Issued_KeepFirst(rec, token, t) ==
    IF rec.token_email # NoToken
    THEN rec
    ELSE [rec EXCEPT !.token_email = token, !.expiration = ExpirationDate(t)]

\* generate_encrypted_key: token_email = email_token;
\* expiration_date_email_token = timezone.now() + timedelta(hours=1)
Issued(rec, token, t) ==
    [rec EXCEPT !.token_email = token, !.expiration = ExpirationDate(t)]

\* a registration that saves the account as verified
RegisteredRow_Verified(email) == [email |-> email, verified |-> TRUE, super |-> FALSE]

\* the row a registration form saves: _is_user_verified defaults to False
RegisteredRow(email) == [email |-> email, verified |-> FALSE, super |-> FALSE]

\* a consumption whose UPDATE names the token column alone
Clear_TokenOnly(rec) == [rec EXCEPT !.token_email = NoToken]

\* a consumption that forgets the token column
Clear_ExpiryOnly(rec) == [rec EXCEPT !.expiration = NoTime]

\* token_email = None; expiration_date_email_token = None
Clear(rec) == [rec EXCEPT !.token_email = NoToken, !.expiration = NoTime]

FreeSlots   == {p \in ReqIds : reqs[p].pc = "idle"}
FreeSlot    == CHOOSE p \in FreeSlots : \A q \in FreeSlots : p <= q
FreeTasks   == {t \in TaskIds : tasks[t].st = "none"}
FreeTask    == CHOOSE t \in FreeTasks : \A s \in FreeTasks : t <= s
FreeUserIds == {u \in UserIds : ~Exists(u)}
NewUserId   == CHOOSE u \in FreeUserIds : \A v \in FreeUserIds : u <= v

\* a delay() that queues the task twice
Dispatch_Twice(email, origin) ==
    /\ Cardinality(FreeTasks) >= 2
    /\ tasks' = [t \in TaskIds |->
                    IF t \in FreeTasks
                    THEN [NoTask EXCEPT !.st = "queued", !.email = email, !.origin = origin]
                    ELSE tasks[t]]

\* send_verification_email.delay(email)
Dispatch(email, origin) ==
    /\ FreeTasks # {}
    /\ tasks' = [tasks EXCEPT ![FreeTask] =
                    [NoTask EXCEPT !.st = "queued", !.email = email, !.origin = origin]]

NoResponse == Response("none", "none", NoUser, NoToken)

\* a request answers
Respond(response) == last' = response /\ mail' = NoMail

\* the request in slot p answers and ends
Finish(p, response) == reqs' = [reqs EXCEPT ![p] = IdleReq] /\ Respond(response)

\* a step that answers no request and sends no mail
Quiet == last' = NoResponse /\ mail' = NoMail

Goto(p, pc) == reqs' = [reqs EXCEPT ![p].pc = pc]

\* a request arrives / a step of a request or task already counted
Arrive == served < MaxRequests /\ served' = served + 1 /\ UNCHANGED apart
Stay   == UNCHANGED served /\ UNCHANGED apart

Init ==
    /\ users = [u \in UserIds |-> NoRow]
    /\ verification = [u \in UserIds |-> NoRecord]
    /\ now = 0
    /\ nextToken = 1
    /\ reqs = [p \in ReqIds |-> IdleReq]
    /\ tasks = [t \in TaskIds |-> NoTask]
    /\ mail = NoMail
    /\ last = NoResponse
    /\ owner = [t \in Tokens |-> NoUser]
    /\ issuedFor = [t \in Tokens |-> NoEmail]
    /\ issuedAt = [u \in UserIds |-> NoTime]
    /\ consumed = {}
    /\ inbox = {}
    /\ served = 0
    /\ crypt = NoCrypt
    /\ events = [e \in EventIds |-> NoEventRow]
    /\ participation = [e \in EventIds |-> [u \in UserIds |-> 0]]
    /\ ereqs = [p \in ReqIds |-> IdleEReq]

\* ------------------------------------------------------------- the clock
Tick ==
    /\ Stay
    /\ now < MaxTime
    /\ now' = now + 1
    /\ Quiet
    /\ UNCHANGED <<db, nextToken, reqs, tasks, hist, inbox>>

\* ------------------------------------------------- RegisterView (POST)
\* The form is rejected (weak password, passwords that differ, malformed or
\* already registered email): form_invalid renders the page again.
RegisterInvalid(p, email, wellFormed) ==
    /\ Arrive
    /\ FreeSlots # {} /\ p = FreeSlot
    /\ ~wellFormed \/ UsersByEmail(email) # {}
    /\ Respond(Response("register", "form_invalid", NoUser, NoToken))
    /\ UNCHANGED <<db, now, nextToken, reqs, tasks, hist, inbox>>

\* form_valid: user = form.save(commit=False); user.save()
RegisterCreateUser(p, email) ==
    /\ Arrive
    /\ FreeSlots # {} /\ p = FreeSlot
    /\ UsersByEmail(email) = {}
    /\ FreeUserIds # {}
    /\ users' = [users EXCEPT ![NewUserId] = RegisteredRow(email)]
    /\ reqs' = [reqs EXCEPT ![p] =
                    [IdleReq EXCEPT !.kind = "register", !.pc = "create_verification",
                                    !.user = NewUserId, !.email = email]]
    /\ Quiet
    /\ UNCHANGED <<verification, now, nextToken, tasks, hist, inbox>>

\* UserVerification.objects.create(user=user)
RegisterCreateVerification(p) ==
    /\ Stay
    /\ reqs[p].kind = "register" /\ reqs[p].pc = "create_verification"
    /\ verification' = [verification EXCEPT ![reqs[p].user] = NewRecord]
    /\ Goto(p, "dispatch")
    /\ Quiet
    /\ UNCHANGED <<users, now, nextToken, tasks, hist, inbox>>

\* send_verification_email.delay(user.email)
RegisterDispatch(p) ==
    /\ Stay
    /\ reqs[p].kind = "register" /\ reqs[p].pc = "dispatch"
    /\ Dispatch(reqs[p].email, "register")
    /\ Goto(p, "final_save")
    /\ Quiet
    /\ UNCHANGED <<db, now, nextToken, hist, inbox>>

\* super().form_valid(form): self.object = form.save() writes every column of
\* the request's user object again, _is_user_verified included.
RegisterFinalSave(p) ==
    /\ Stay
    /\ reqs[p].kind = "register" /\ reqs[p].pc = "final_save"
    /\ IF EmailTaken(reqs[p].email, reqs[p].user)
       THEN /\ Finish(p, Response("register", "error", reqs[p].user, NoToken))
            /\ UNCHANGED users
       ELSE /\ users' = [users EXCEPT ![reqs[p].user] = RegisteredRow(reqs[p].email)]
            /\ Finish(p, Response("register", "registered", reqs[p].user, NoToken))
    /\ UNCHANGED <<verification, now, nextToken, tasks, hist, inbox>>

\* ------------------------- UserManager.create_superuser (createsuperuser)
\* extra_fields.setdefault('_is_user_verified', True); _create_user saves the
\* user and, for a superuser, creates the UserVerification row.
CreateSuperuser(email) ==
    /\ Arrive
    /\ UsersByEmail(email) = {}
    /\ FreeUserIds # {}
    /\ users' = [users EXCEPT ![NewUserId] =
                    [email |-> email, verified |-> TRUE, super |-> TRUE]]
    /\ verification' = [verification EXCEPT ![NewUserId] = NewRecord]
    /\ Respond(Response("superuser", "created", NewUserId, NoToken))
    /\ UNCHANGED <<now, nextToken, reqs, tasks, hist, inbox>>

\* ---------------------------------------------- UserManager.create_user
\* is_superuser defaults to False, so _create_user saves the user and
\* creates no UserVerification row.
CreateUser(email) ==
    /\ Arrive
    /\ UsersByEmail(email) = {}
    /\ FreeUserIds # {}
    /\ users' = [users EXCEPT ![NewUserId] = RegisteredRow(email)]
    /\ Respond(Response("create_user", "created", NewUserId, NoToken))
    /\ UNCHANGED <<verification, now, nextToken, reqs, tasks, hist, inbox>>

\* ------------------------------- SendConfirmationEmail (GET, logged in)
Resend(u) ==
    /\ Arrive
    /\ Exists(u)
    /\ Dispatch(users[u].email, "resend")
    /\ Respond(Response("resend", "sent", u, NoToken))
    /\ UNCHANGED <<db, now, nextToken, reqs, hist, inbox>>

\* ------------------------------------------ send_verification_email task
\* a retry policy that grants one retry more
Raised_OneMore(task) ==
    IF task.tries <= max_retries
    THEN [task EXCEPT !.st = "queued", !.tries = task.tries + 1,
                      !.user = NoUser, !.tok = NoToken, !.at = NoTime]
    ELSE OverTask

\* autoretry_for=(Exception,), max_retries=3: an execution that raises is
\* queued again until the task has been retried max_retries times.
Raised(task) ==
    IF task.tries < max_retries
    THEN [task EXCEPT !.st = "queued", !.tries = task.tries + 1,
                      !.user = NoUser, !.tok = NoToken, !.at = NoTime]
    ELSE OverTask

\* user = User.objects.select_related('verification').get(email=email), then
\* the first lines of EmailVerification.generate_encrypted_key: the task
\* draws a fresh token and reads the clock.  A user that is not found, or
\* one without a verification row, raises.
TaskLoad(t) ==
    /\ Stay
    /\ tasks[t].st = "queued"
    /\ LET found == UsersByEmail(tasks[t].email) IN
       IF found = {} \/ \E u \in found : ~verification[u].exists
       THEN /\ tasks' = [tasks EXCEPT ![t] = Raised(tasks[t])]
            /\ UNCHANGED nextToken
       ELSE \E u \in found :
            /\ nextToken <= MaxTokens
            /\ nextToken' = nextToken + 1
            /\ tasks' = [tasks EXCEPT ![t].st = "issuing",
                                      ![t].user = u,
                                      ![t].tok = token_hex(nextToken),
                                      ![t].at = now]
    /\ Quiet
    /\ UNCHANGED <<db, now, reqs, hist, inbox>>

\* self.user.verification.save(update_fields=['token_email',
\* 'expiration_date_email_token']): the token and its expiry are written to
\* the loaded user's verification row in one UPDATE.
TaskIssue(t) ==
    /\ Stay
    /\ tasks[t].st = "issuing"
    /\ verification' = [verification EXCEPT ![tasks[t].user] =
            Issued(verification[tasks[t].user], tasks[t].tok, tasks[t].at)]
    /\ owner' = [owner EXCEPT ![tasks[t].tok] = tasks[t].user]
    /\ issuedFor' = [issuedFor EXCEPT ![tasks[t].tok] = users[tasks[t].user].email]
    /\ issuedAt' = [issuedAt EXCEPT ![tasks[t].user] = tasks[t].at]
    /\ tasks' = [tasks EXCEPT ![t].st = "sending",
                              ![t].issues = tasks[t].issues + 1]
    /\ Quiet
    /\ UNCHANGED <<users, now, nextToken, reqs, consumed, inbox>>

\* send_mail(..., recipient_list=[self.user.email], html_message=<the link>,
\* fail_silently=False) hands the link to the mailer
TaskSendOk(t, iv) ==
    /\ Stay
    /\ tasks[t].st = "sending"
    /\ mail' = [to |-> tasks[t].email,
                link |-> encrypt_token(tasks[t].tok, ENCRYPT_KEY, iv)]
    /\ inbox' = inbox \cup {encrypt_token(tasks[t].tok, ENCRYPT_KEY, iv)}
    /\ last' = NoResponse
    /\ tasks' = [tasks EXCEPT ![t] = OverTask]
    /\ UNCHANGED <<db, now, nextToken, reqs, hist>>

\* ... or raises (SMTP failure): the task is retried from its first line
TaskSendFail(t) ==
    /\ Stay
    /\ tasks[t].st = "sending"
    /\ tasks' = [tasks EXCEPT ![t] = Raised(tasks[t])]
    /\ Quiet
    /\ UNCHANGED <<db, now, nextToken, reqs, hist, inbox>>

\* ------------------------------------------------ ConfirmEmailView (GET)
\* The statement of check_token_is_valid at which a link is turned away:
\* "absent" (if not token), "decrypt" (InvalidToken or binascii.Error),
\* "lookup" (UserVerification.DoesNotExist), or "none" when a row is found.
DeniedAt(link) ==
    LET d == decrypt_token(link, ENCRYPT_KEY) IN
    IF link.armor = "absent" THEN "absent"
    ELSE IF ~d.ok THEN "decrypt"
    ELSE IF FindByToken(d.value) = {} THEN "lookup"
    ELSE "none"

\* a lookup that answers an unknown plaintext with a page of its own
ConfirmLookup_Telling(p, link) ==
    /\ Arrive
    /\ FreeSlots # {} /\ p = FreeSlot
    /\ LET d == decrypt_token(link, ENCRYPT_KEY)
           found == IF d.ok THEN FindByToken(d.value) ELSE {}
       IN IF link.armor = "absent" \/ ~d.ok
          THEN /\ Respond(Response("confirm", "denied", NoUser, d.value))
               /\ UNCHANGED reqs
          ELSE IF found = {}
          THEN /\ Respond(Response("confirm", "not_found", NoUser, d.value))
               /\ UNCHANGED reqs
          ELSE /\ \E u \in found :
                    reqs' = [reqs EXCEPT ![p] =
                        [kind |-> "confirm", pc |-> "check", user |-> u,
                         email |-> users[u].email, tok |-> d.value,
                         exp |-> verification[u].expiration]]
               /\ Quiet
    /\ UNCHANGED <<db, now, nextToken, tasks, hist, inbox>>

\* check_token_is_valid up to the lookup: no token, a token that does not
\* decode or decrypt, or one that matches no row raises PermissionDenied.
ConfirmLookup(p, link) ==
    /\ Arrive
    /\ FreeSlots # {} /\ p = FreeSlot
    /\ LET d == decrypt_token(link, ENCRYPT_KEY)
           found == IF d.ok THEN FindByToken(d.value) ELSE {}
       IN IF link.armor = "absent" \/ ~d.ok \/ found = {}
          THEN /\ Respond(Response("confirm", "denied", NoUser, d.value))
               /\ UNCHANGED reqs
          ELSE /\ \E u \in found :
                    reqs' = [reqs EXCEPT ![p] =
                        [kind |-> "confirm", pc |-> "check", user |-> u,
                         email |-> users[u].email, tok |-> d.value,
                         exp |-> verification[u].expiration]]
               /\ Quiet
    /\ UNCHANGED <<db, now, nextToken, tasks, hist, inbox>>

\* check_token_expiration on the row the lookup loaded
ConfirmCheck(p) ==
    /\ Stay
    /\ reqs[p].kind = "confirm" /\ reqs[p].pc = "check"
    /\ IF is_email_token_expired(reqs[p].exp, now)
       THEN /\ Dispatch(reqs[p].email, "reissue")
            /\ Finish(p, Response("confirm", "expired", reqs[p].user, reqs[p].tok))
       ELSE /\ Goto(p, "flag")
            /\ Quiet
            /\ UNCHANGED tasks
    /\ UNCHANGED <<db, now, nextToken, hist, inbox>>

\* a view that answers without writing the flag
ConfirmSetVerified_Unsaved(p) ==
    /\ Stay
    /\ reqs[p].kind = "confirm" /\ reqs[p].pc = "flag"
    /\ users' = users
    /\ Goto(p, "clear")
    /\ Quiet
    /\ UNCHANGED <<verification, now, nextToken, tasks, hist, inbox>>

\* user.is_verified = True: the setter saves _is_user_verified
ConfirmSetVerified(p) ==
    /\ Stay
    /\ reqs[p].kind = "confirm" /\ reqs[p].pc = "flag"
    /\ users' = [users EXCEPT ![reqs[p].user].verified = TRUE]
    /\ Goto(p, "clear")
    /\ Quiet
    /\ UNCHANGED <<verification, now, nextToken, tasks, hist, inbox>>

\* user_verification.save(update_fields=['token_email', 'expiration_date_email_token'])
ConfirmClear(p) ==
    /\ Stay
    /\ reqs[p].kind = "confirm" /\ reqs[p].pc = "clear"
    /\ verification' = [verification EXCEPT ![reqs[p].user] = Clear(verification[reqs[p].user])]
    /\ issuedAt' = [issuedAt EXCEPT ![reqs[p].user] = NoTime]
    /\ consumed' = consumed \cup {reqs[p].tok}
    /\ Finish(p, Response("confirm", "success", reqs[p].user, reqs[p].tok))
    /\ UNCHANGED <<users, now, nextToken, tasks, owner, issuedFor, inbox>>

\* ------------------------------------- UserUpdateView (POST, logged in)
\* UserUpdateForm.clean_email and the model's unique check reject the form.
UpdateInvalid(p, u, email) ==
    /\ Arrive
    /\ FreeSlots # {} /\ p = FreeSlot
    /\ Exists(u)
    /\ email = users[u].email \/ EmailTaken(email, u)
    /\ Respond(Response("update", "form_invalid", u, NoToken))
    /\ UNCHANGED <<db, now, nextToken, reqs, tasks, hist, inbox>>

\* form_valid: user = form.save(commit=False)
UpdateStart(p, u, email) ==
    /\ Arrive
    /\ FreeSlots # {} /\ p = FreeSlot
    /\ Exists(u)
    /\ email # users[u].email /\ ~EmailTaken(email, u)
    /\ reqs' = [reqs EXCEPT ![p] =
                    [IdleReq EXCEPT !.kind = "update", !.pc = "unverify",
                                    !.user = u, !.email = email]]
    /\ Quiet
    /\ UNCHANGED <<db, now, nextToken, tasks, hist, inbox>>

\* user.is_verified = False: the setter saves _is_user_verified
UpdateUnverify(p) ==
    /\ Stay
    /\ reqs[p].kind = "update" /\ reqs[p].pc = "unverify"
    /\ users' = [users EXCEPT ![reqs[p].user].verified = FALSE]
    /\ Goto(p, "save")
    /\ Quiet
    /\ UNCHANGED <<verification, now, nextToken, tasks, hist, inbox>>

\* user.save(), and then super().form_valid(form), whose form.save() saves
\* the same object again; the unique constraint on email can refuse either.
UpdateSave(p) ==
    /\ Stay
    /\ reqs[p].kind = "update" /\ reqs[p].pc \in {"save", "final_save"}
    /\ IF EmailTaken(reqs[p].email, reqs[p].user)
       THEN /\ Finish(p, Response("update", "error", reqs[p].user, NoToken))
            /\ UNCHANGED users
       ELSE /\ users' = [users EXCEPT ![reqs[p].user].email = reqs[p].email,
                                      ![reqs[p].user].verified = FALSE]
            /\ IF reqs[p].pc = "save"
               THEN Goto(p, "final_save") /\ Quiet
               ELSE Finish(p, Response("update", "updated", reqs[p].user, NoToken))
    /\ UNCHANGED <<verification, now, nextToken, tasks, hist, inbox>>

\* -------------------------------------------------------- specification
\* the requests, the management command and the task executions
Handlers ==
    \/ \E p \in ReqIds, e \in Emails, w \in BOOLEAN : RegisterInvalid(p, e, w)
    \/ \E p \in ReqIds, e \in Emails : RegisterCreateUser(p, e)
    \/ \E p \in ReqIds : RegisterCreateVerification(p)
    \/ \E p \in ReqIds : RegisterDispatch(p)
    \/ \E p \in ReqIds : RegisterFinalSave(p)
    \/ \E e \in Emails : CreateSuperuser(e)
    \/ \E u \in UserIds : Resend(u)
    \/ \E t \in TaskIds : TaskLoad(t)
    \/ \E t \in TaskIds : TaskIssue(t)
    \/ \E t \in TaskIds, iv \in IVs : TaskSendOk(t, iv)
    \/ \E t \in TaskIds : TaskSendFail(t)
    \/ \E p \in ReqIds, link \in Presentable : ConfirmLookup(p, link)
    \/ \E p \in ReqIds : ConfirmCheck(p)
    \/ \E p \in ReqIds : ConfirmSetVerified(p)
    \/ \E p \in ReqIds : ConfirmClear(p)
    \/ \E p \in ReqIds, u \in UserIds, e \in Emails : UpdateInvalid(p, u, e)
    \/ \E p \in ReqIds, u \in UserIds, e \in Emails : UpdateStart(p, u, e)
    \/ \E p \in ReqIds : UpdateUnverify(p)
    \/ \E p \in ReqIds : UpdateSave(p)

\* ... and UserManager.create_user, which no view calls
Next == Tick \/ Handlers \/ \E e \in Emails : CreateUser(e)

Spec == Init /\ [][Next]_vars

\* ------------------------------------------------- within one clock hour
\* Every interleaving of the handlers' statements while the clock stands.
SpecInstant == Init /\ [][Handlers]_vars

\* ---------------------------------------------- one request at a time
InFlight ==
    Cardinality({p \in ReqIds : reqs[p].pc # "idle"}) +
    Cardinality({t \in TaskIds : tasks[t].st \in {"issuing", "sending"}})

\* no request and no task execution is under way
Alone == InFlight = 0

NextSerial ==
    \/ Tick
    \/ \E p \in ReqIds, e \in Emails, w \in BOOLEAN : Alone /\ RegisterInvalid(p, e, w)
    \/ \E p \in ReqIds, e \in Emails : Alone /\ RegisterCreateUser(p, e)
    \/ \E p \in ReqIds : RegisterCreateVerification(p)
    \/ \E p \in ReqIds : RegisterDispatch(p)
    \/ \E p \in ReqIds : RegisterFinalSave(p)
    \/ \E e \in Emails : Alone /\ CreateSuperuser(e)
    \/ \E u \in UserIds : Alone /\ Resend(u)
    \/ \E t \in TaskIds : Alone /\ TaskLoad(t)
    \/ \E t \in TaskIds : TaskIssue(t)
    \/ \E t \in TaskIds, iv \in IVs : TaskSendOk(t, iv)
    \/ \E t \in TaskIds : TaskSendFail(t)
    \/ \E p \in ReqIds, link \in Presentable : Alone /\ ConfirmLookup(p, link)
    \/ \E p \in ReqIds : ConfirmCheck(p)
    \/ \E p \in ReqIds : ConfirmSetVerified(p)
    \/ \E p \in ReqIds : ConfirmClear(p)
    \/ \E p \in ReqIds, u \in UserIds, e \in Emails : Alone /\ UpdateInvalid(p, u, e)
    \/ \E p \in ReqIds, u \in UserIds, e \in Emails : Alone /\ UpdateStart(p, u, e)
    \/ \E p \in ReqIds : UpdateUnverify(p)
    \/ \E p \in ReqIds : UpdateSave(p)

SpecSerial == Init /\ [][NextSerial]_vars


\* --------------------------------------------------- how accounts are made
\* The three ways a User row comes to exist, with Resend and the task, in
\* every interleaving.
NextAccounts ==
    \/ \E p \in ReqIds, e \in Emails, w \in BOOLEAN : RegisterInvalid(p, e, w)
    \/ \E p \in ReqIds, e \in Emails : RegisterCreateUser(p, e)
    \/ \E p \in ReqIds : RegisterCreateVerification(p)
    \/ \E p \in ReqIds : RegisterDispatch(p)
    \/ \E p \in ReqIds : RegisterFinalSave(p)
    \/ \E e \in Emails : CreateSuperuser(e)
    \/ \E e \in Emails : CreateUser(e)
    \/ \E u \in UserIds : Resend(u)
    \/ \E t \in TaskIds : TaskLoad(t)
    \/ \E t \in TaskIds : TaskIssue(t)
    \/ \E t \in TaskIds, iv \in IVs : TaskSendOk(t, iv)
    \/ \E t \in TaskIds : TaskSendFail(t)

SpecAccounts == Init /\ [][NextAccounts]_vars

\* ------------------------------------------------ the cipher on its own
\* encrypt_token and decrypt_token called with a token, a key and a text
\* of the caller's choosing.
InitCipher ==
    /\ users = [u \in UserIds |-> NoRow]
    /\ verification = [u \in UserIds |-> NoRecord]
    /\ now = 0
    /\ nextToken = 1
    /\ reqs = [p \in ReqIds |-> IdleReq]
    /\ tasks = [t \in TaskIds |-> NoTask]
    /\ mail = NoMail
    /\ last = NoResponse
    /\ owner = [t \in Tokens |-> NoUser]
    /\ issuedFor = [t \in Tokens |-> NoEmail]
    /\ issuedAt = [u \in UserIds |-> NoTime]
    /\ consumed = {}
    /\ inbox = {}
    /\ served = 0
    /\ events = [e \in EventIds |-> NoEventRow]
    /\ participation = [e \in EventIds |-> [u \in UserIds |-> 0]]
    /\ ereqs = [p \in ReqIds |-> IdleEReq]
    /\ crypt \in [token : Tokens, key : Keys, text : Links \ {AbsentLink},
                   sealed : {FALSE}, result : {NoResult}]

\* text = encrypt_token(token, key)
Encrypt(iv) ==
    /\ crypt.result = NoResult
    /\ crypt' = [crypt EXCEPT !.text = encrypt_token(crypt.token, crypt.key, iv),
                              !.sealed = TRUE]
    /\ UNCHANGED <<users, verification, now, nextToken, reqs, tasks, mail, last,
                   owner, issuedFor, issuedAt, consumed, inbox, served, events,
                   participation, ereqs>>

\* result = decrypt_token(text, key), or the exception it raised
Decrypt ==
    /\ crypt.result = NoResult
    /\ crypt' = [crypt EXCEPT !.result = decrypt_token(crypt.text, crypt.key)]
    /\ UNCHANGED <<users, verification, now, nextToken, reqs, tasks, mail, last,
                   owner, issuedFor, issuedAt, consumed, inbox, served, events,
                   participation, ereqs>>

NextCipher == (\E iv \in IVs : Encrypt(iv)) \/ Decrypt

SpecCipher == InitCipher /\ [][NextCipher]_vars

\* ------------------------------------------------------- the events app
FreeESlots  == {p \in ReqIds : ereqs[p].pc = "idle"}
FreeESlot   == CHOOSE p \in FreeESlots : \A q \in FreeESlots : p <= q
\* the primary keys not handed out yet (a deleted row's key is not used again)
FreeEventIds == {e \in EventIds : ~events[e].exists /\ events[e].creator = NoUser}
NewEventId  == CHOOSE e \in FreeEventIds : \A f \in FreeEventIds : e <= f

\* the request in slot p of the events app answers and ends
EFinish(p, response) == ereqs' = [ereqs EXCEPT ![p] = IdleEReq] /\ Respond(response)

\* event.participants: the users with a Participation row for event e
Participants(e) == {u \in UserIds : participation[e][u] > 0}
RECURSIVE RowsUpTo(_, _)
RowsUpTo(e, n) == IF n = 0 THEN 0 ELSE participation[e][n] + RowsUpTo(e, n - 1)

\* the Participation rows of event e
Rows(e) == RowsUpTo(e, MaxUsers)

\* an INSERT into a Participation table without unique_together
Added_Unchecked(rows, e, u) == [rows EXCEPT ![e][u] = @ + 1]

\* event.participants.add(user): one row more, unless the pair is there
\* already (unique_together = ('event', 'participant'))
Added(rows, e, u) == IF rows[e][u] > 0 THEN rows ELSE [rows EXCEPT ![e][u] = 1]

\* event.participants.remove(user): DELETE of the rows of the pair
Removed(rows, e, u) == [rows EXCEPT ![e][u] = 0]

\* EventCreateView (POST, logged in) with the check of is_verified left out
CreateStart_Unchecked(p, u, wellFormed) ==
    /\ FreeESlots # {} /\ p = FreeESlot
    /\ Exists(u)
    /\ IF ~wellFormed
       THEN /\ Respond(Response("create", "form_invalid", u, NoToken))
            /\ UNCHANGED ereqs
       ELSE /\ \E day \in {t \in Times : ~(t < now)} :
                    ereqs' = [ereqs EXCEPT ![p] =
                        [IdleEReq EXCEPT !.kind = "create", !.pc = "save", !.user = u,
                                         !.date = day]]
            /\ Quiet
    /\ UNCHANGED <<usersApp, events, participation>>

\* EventCreateView (POST, logged in): request.user is loaded with the
\* request; a form that does not validate (clean_date refuses a date before
\* now) goes to form_invalid, and so does form_valid when
\* request.user.is_verified is false.
CreateStart(p, u, wellFormed) ==
    /\ FreeESlots # {} /\ p = FreeESlot
    /\ Exists(u)
    /\ IF ~wellFormed
       THEN /\ Respond(Response("create", "form_invalid", u, NoToken))
            /\ UNCHANGED ereqs
       ELSE IF ~users[u].verified
       THEN /\ Respond(Response("create", "not_verified", u, NoToken))
            /\ UNCHANGED ereqs
       ELSE /\ \E day \in {t \in Times : ~(t < now)} :
                    ereqs' = [ereqs EXCEPT ![p] =
                        [IdleEReq EXCEPT !.kind = "create", !.pc = "save", !.user = u,
                                         !.date = day]]
            /\ Quiet
    /\ UNCHANGED <<usersApp, events, participation>>

\* event.creator = self.request.user; event.save(), and the form's own save
\* of the same object in super().form_valid(form)
CreateSave(p) ==
    /\ ereqs[p].kind = "create" /\ ereqs[p].pc = "save"
    /\ FreeEventIds # {}
    /\ events' = [events EXCEPT ![NewEventId] =
                    [exists |-> TRUE, creator |-> ereqs[p].user, date |-> ereqs[p].date,
                     participants_count |-> 0]]
    /\ EFinish(p, Response("create", "created", ereqs[p].user, NoToken))
    /\ UNCHANGED <<usersApp, participation>>

\* JoinEvent.post / WithdrawEvent.post (logged in) up to the test of
\* event.participants.filter(id=request.user.id).exists(): Http404 for an
\* unknown slug; nothing to do for a join of a participant or a withdrawal
\* of somebody who is none ("unchanged": the page shown is that of "done").
Attend(p, kind, u, e) ==
    /\ FreeESlots # {} /\ p = FreeESlot
    /\ Exists(u)
    /\ IF ~events[e].exists
       THEN /\ Respond(Response(kind, "not_found", u, NoToken))
            /\ UNCHANGED ereqs
       ELSE IF (kind = "join") = (u \in Participants(e))
       THEN /\ Respond(Response(kind, "unchanged", u, NoToken))
            /\ UNCHANGED ereqs
       ELSE /\ ereqs' = [ereqs EXCEPT ![p] =
                    [IdleEReq EXCEPT !.kind = kind, !.pc = "write", !.user = u, !.event = e]]
            /\ Quiet
    /\ UNCHANGED <<usersApp, events, participation>>

\* event.participants.add(self.request.user)
JoinAdd(p) ==
    /\ ereqs[p].kind = "join" /\ ereqs[p].pc = "write"
    /\ participation' = Added(participation, ereqs[p].event, ereqs[p].user)
    /\ ereqs' = [ereqs EXCEPT ![p].pc = "count"]
    /\ Quiet
    /\ UNCHANGED <<usersApp, events>>

\* ... which raises IntegrityError when a concurrent join has inserted the
\* pair since add() looked for it
JoinAddRefused(p) ==
    /\ ereqs[p].kind = "join" /\ ereqs[p].pc = "write"
    /\ participation[ereqs[p].event][ereqs[p].user] > 0
    /\ EFinish(p, Response("join", "error", ereqs[p].user, NoToken))
    /\ UNCHANGED <<usersApp, events, participation>>

\* event.participants.remove(self.request.user)
WithdrawRemove(p) ==
    /\ ereqs[p].kind = "withdraw" /\ ereqs[p].pc = "write"
    /\ participation' = Removed(participation, ereqs[p].event, ereqs[p].user)
    /\ ereqs' = [ereqs EXCEPT ![p].pc = "count"]
    /\ Quiet
    /\ UNCHANGED <<usersApp, events>>

\* update_participants_number: self.participants_count = len(self.participants.all());
\* add() and remove() have dropped the prefetched participants, so this is a query
CountParticipants(p) ==
    /\ ereqs[p].pc = "count"
    /\ ereqs' = [ereqs EXCEPT ![p].pc = "save", ![p].seen = Rows(ereqs[p].event)]
    /\ Quiet
    /\ UNCHANGED <<usersApp, events, participation>>

\* update_participants_number: self.save(update_fields=['participants_count'])
SaveCount(p) ==
    /\ ereqs[p].pc = "save" /\ ereqs[p].kind \in {"join", "withdraw"}
    /\ events' = [events EXCEPT ![ereqs[p].event].participants_count = ereqs[p].seen]
    /\ EFinish(p, Response(ereqs[p].kind, "done", ereqs[p].user, NoToken))
    /\ UNCHANGED <<usersApp, participation>>

\* EventDeleteView (POST, logged in) with a get_object that looks for the
\* slug alone
DeleteStart_AnyCreator(p, u, e) ==
    /\ FreeESlots # {} /\ p = FreeESlot
    /\ Exists(u)
    /\ IF ~events[e].exists
       THEN /\ Respond(Response("delete", "not_found", u, NoToken))
            /\ UNCHANGED ereqs
       ELSE IF events[e].date < now
       THEN /\ Respond(Response("delete", "past", u, NoToken))
            /\ UNCHANGED ereqs
       ELSE /\ ereqs' = [ereqs EXCEPT ![p] =
                    [IdleEReq EXCEPT !.kind = "delete", !.pc = "delete", !.user = u,
                                     !.event = e, !.date = events[e].date]]
            /\ Quiet
    /\ UNCHANGED <<usersApp, events, participation>>

\* EventDeleteView (POST, logged in): get_object_or_404(Event, slug=...,
\* creator=request.user), then form_valid's test event.date < timezone.now(),
\* which sends a past event to form_invalid.
DeleteStart(p, u, e) ==
    /\ FreeESlots # {} /\ p = FreeESlot
    /\ Exists(u)
    /\ IF ~events[e].exists \/ events[e].creator # u
       THEN /\ Respond(Response("delete", "not_found", u, NoToken))
            /\ UNCHANGED ereqs
       ELSE IF events[e].date < now
       THEN /\ Respond(Response("delete", "past", u, NoToken))
            /\ UNCHANGED ereqs
       ELSE /\ ereqs' = [ereqs EXCEPT ![p] =
                    [IdleEReq EXCEPT !.kind = "delete", !.pc = "delete", !.user = u,
                                     !.event = e, !.date = events[e].date]]
            /\ Quiet
    /\ UNCHANGED <<usersApp, events, participation>>

\* super().form_valid(form): self.object.delete(), which takes the event's
\* Participation rows with it (on_delete=CASCADE)
DeleteRun(p) ==
    /\ ereqs[p].kind = "delete" /\ ereqs[p].pc = "delete"
    /\ events' = [events EXCEPT ![ereqs[p].event].exists = FALSE]
    /\ participation' = [participation EXCEPT ![ereqs[p].event] = [u \in UserIds |-> 0]]
    /\ EFinish(p, Response("delete", "deleted", ereqs[p].user, NoToken))
    /\ UNCHANGED usersApp

\* Accounts as registrations and confirmations leave them: the first user
\* and maybe a second, each verified or not, no link outstanding.
InitEvents ==
    /\ users \in {f \in [UserIds -> [email : Emails \cup {NoEmail}, verified : BOOLEAN, super : {FALSE}]] :
                    /\ f[1].email = "a@x"
                    /\ f[2].email \in {"b@x", NoEmail}
                    /\ f[2].email = NoEmail => ~f[2].verified
                    /\ \A u \in UserIds \ {1, 2} : f[u] = NoRow}
    /\ verification = [u \in UserIds |-> IF users[u].email # NoEmail THEN NewRecord ELSE NoRecord]
    /\ now = 0
    /\ nextToken = 1
    /\ reqs = [p \in ReqIds |-> IdleReq]
    /\ tasks = [t \in TaskIds |-> NoTask]
    /\ mail = NoMail
    /\ last = NoResponse
    /\ owner = [t \in Tokens |-> NoUser]
    /\ issuedFor = [t \in Tokens |-> NoEmail]
    /\ issuedAt = [u \in UserIds |-> NoTime]
    /\ consumed = {}
    /\ inbox = {}
    /\ served = 0
    /\ crypt = NoCrypt
    /\ events = [e \in EventIds |-> NoEventRow]
    /\ participation = [e \in EventIds |-> [u \in UserIds |-> 0]]
    /\ ereqs = [p \in ReqIds |-> IdleEReq]

\* Event creation in every interleaving with the email change, which takes
\* the verified flag away.
NextCreation ==
    \/ \E p \in ReqIds, u \in UserIds, w \in BOOLEAN : CreateStart(p, u, w)
    \/ \E p \in ReqIds : CreateSave(p)
    \/ \E p \in ReqIds, u \in UserIds, e \in Emails : UpdateStart(p, u, e)
    \/ \E p \in ReqIds : UpdateUnverify(p)
    \/ \E p \in ReqIds : UpdateSave(p)

SpecCreation == InitEvents /\ [][NextCreation]_vars

\* Creating and deleting events in every interleaving, while time passes.
NextDeletion ==
    \/ Tick
    \/ \E p \in ReqIds, u \in UserIds, w \in BOOLEAN : CreateStart(p, u, w)
    \/ \E p \in ReqIds : CreateSave(p)
    \/ \E p \in ReqIds, u \in UserIds, e \in EventIds : DeleteStart(p, u, e)
    \/ \E p \in ReqIds : DeleteRun(p)

SpecDeletion == InitEvents /\ [][NextDeletion]_vars

\* Two verified accounts and the events they have created so far: one of
\* the first user, and maybe one of the second; nobody has joined yet.
InitAttendance ==
    /\ users = [u \in UserIds |->
                    IF u = 1 THEN [email |-> "a@x", verified |-> TRUE, super |-> FALSE]
                    ELSE IF u = 2 THEN [email |-> "b@x", verified |-> TRUE, super |-> FALSE]
                    ELSE NoRow]
    /\ verification = [u \in UserIds |-> IF users[u].email # NoEmail THEN NewRecord ELSE NoRecord]
    /\ now = 0
    /\ nextToken = 1
    /\ reqs = [p \in ReqIds |-> IdleReq]
    /\ tasks = [t \in TaskIds |-> NoTask]
    /\ mail = NoMail
    /\ last = NoResponse
    /\ owner = [t \in Tokens |-> NoUser]
    /\ issuedFor = [t \in Tokens |-> NoEmail]
    /\ issuedAt = [u \in UserIds |-> NoTime]
    /\ consumed = {}
    /\ inbox = {}
    /\ served = 0
    /\ crypt = NoCrypt
    /\ events \in {f \in [EventIds -> {NoEventRow} \cup
                                [exists : {TRUE}, creator : UserIds, date : {MaxTime},
                                 participants_count : {0}]] :
                    /\ f[1].exists /\ f[1].creator = 1
                    /\ \A e \in EventIds \ {1} : f[e].exists => f[e].creator = 2}
    /\ participation = [e \in EventIds |-> [u \in UserIds |-> 0]]
    /\ ereqs = [p \in ReqIds |-> IdleEReq]

\* Joining and leaving events in every interleaving.
NextAttendance ==
    \/ \E p \in ReqIds, k \in {"join", "withdraw"}, u \in UserIds, e \in EventIds : Attend(p, k, u, e)
    \/ \E p \in ReqIds : JoinAdd(p)
    \/ \E p \in ReqIds : JoinAddRefused(p)
    \/ \E p \in ReqIds : WithdrawRemove(p)
    \/ \E p \in ReqIds : CountParticipants(p)
    \/ \E p \in ReqIds : SaveCount(p)

SpecAttendance == InitAttendance /\ [][NextAttendance]_vars

\* ------------------------------------------- issuance under a running clock
\* Resend, the task and Confirm in every interleaving, with the clock
\* advancing between their statements, for two accounts that are not
\* verified and hold no token (as an email change leaves an account).
NextIssuance ==
    \/ Tick
    \/ \E u \in UserIds : Resend(u)
    \/ \E t \in TaskIds : TaskLoad(t)
    \/ \E t \in TaskIds : TaskIssue(t)
    \/ \E t \in TaskIds, iv \in IVs : TaskSendOk(t, iv)
    \/ \E t \in TaskIds : TaskSendFail(t)
    \/ \E p \in ReqIds, link \in Presentable : ConfirmLookup(p, link)
    \/ \E p \in ReqIds : ConfirmCheck(p)
    \/ \E p \in ReqIds : ConfirmSetVerified(p)
    \/ \E p \in ReqIds : ConfirmClear(p)

InitIssuance ==
    /\ users = [u \in UserIds |-> IF u = 1 THEN [email |-> "a@x", verified |-> FALSE, super |-> FALSE] ELSE IF u = 2 THEN [email |-> "b@x", verified |-> FALSE, super |-> FALSE] ELSE NoRow]
    /\ verification = [u \in UserIds |-> IF users[u].email # NoEmail THEN NewRecord ELSE NoRecord]
    /\ now = 0
    /\ nextToken = 1
    /\ reqs = [p \in ReqIds |-> IdleReq]
    /\ tasks = [t \in TaskIds |-> NoTask]
    /\ mail = NoMail
    /\ last = NoResponse
    /\ owner = [t \in Tokens |-> NoUser]
    /\ issuedFor = [t \in Tokens |-> NoEmail]
    /\ issuedAt = [u \in UserIds |-> NoTime]
    /\ consumed = {}
    /\ inbox = {}
    /\ served = 0
    /\ crypt = NoCrypt
    /\ events = [e \in EventIds |-> NoEventRow]
    /\ participation = [e \in EventIds |-> [u \in UserIds |-> 0]]
    /\ ereqs = [p \in ReqIds |-> IdleEReq]

SpecIssuance == InitIssuance /\ [][NextIssuance]_vars

\* ------------------------------------------------- delivery, fairly run
\* One account that is not verified and holds no token; the other user ids
\* are free, so that its email can be changed.
InitDelivery ==
    /\ users = [u \in UserIds |-> IF u = 1 THEN [email |-> "a@x", verified |-> FALSE, super |-> FALSE] ELSE NoRow]
    /\ verification = [u \in UserIds |-> IF u = 1 THEN NewRecord ELSE NoRecord]
    /\ now = 0
    /\ nextToken = 1
    /\ reqs = [p \in ReqIds |-> IdleReq]
    /\ tasks = [t \in TaskIds |-> NoTask]
    /\ mail = NoMail
    /\ last = NoResponse
    /\ owner = [t \in Tokens |-> NoUser]
    /\ issuedFor = [t \in Tokens |-> NoEmail]
    /\ issuedAt = [u \in UserIds |-> NoTime]
    /\ consumed = {}
    /\ inbox = {}
    /\ served = 0
    /\ crypt = NoCrypt
    /\ events = [e \in EventIds |-> NoEventRow]
    /\ participation = [e \in EventIds |-> [u \in UserIds |-> 0]]
    /\ ereqs = [p \in ReqIds |-> IdleEReq]

\* Resend, the task with a mailer that accepts every mail, Confirm of the
\* delivered links and the email change, in every interleaving
NextDelivery ==
    \/ Tick
    \/ \E u \in UserIds : Resend(u)
    \/ \E t \in TaskIds : TaskLoad(t)
    \/ \E t \in TaskIds : TaskIssue(t)
    \/ \E t \in TaskIds, iv \in IVs : TaskSendOk(t, iv)
    \/ \E p \in ReqIds, link \in inbox : ConfirmLookup(p, link)
    \/ \E p \in ReqIds : ConfirmCheck(p)
    \/ \E p \in ReqIds : ConfirmSetVerified(p)
    \/ \E p \in ReqIds : ConfirmClear(p)
    \/ \E p \in ReqIds, u \in UserIds, e \in Emails : UpdateStart(p, u, e)
    \/ \E p \in ReqIds : UpdateUnverify(p)
    \/ \E p \in ReqIds : UpdateSave(p)

\* The worker executes every queued task and each statement of an execution
\* that has begun; a view that has begun runs each of its statements.
FairDelivery ==
    /\ \A t \in TaskIds :
        /\ WF_vars(TaskLoad(t))
        /\ WF_vars(TaskIssue(t))
        /\ WF_vars(\E iv \in IVs : TaskSendOk(t, iv))
    /\ \A p \in ReqIds :
        /\ WF_vars(ConfirmCheck(p))
        /\ WF_vars(ConfirmSetVerified(p))
        /\ WF_vars(ConfirmClear(p))
        /\ WF_vars(UpdateUnverify(p))
        /\ WF_vars(UpdateSave(p))

SpecDelivery == InitDelivery /\ [][NextDelivery]_vars /\ FairDelivery

\* =============================================================== claims
\* C1: a Confirm that succeeds leaves the account verified and the row's
\* token and expiry null, and every Confirm that afterwards presents a token
\* already consumed is denied and changes neither the tables nor the queue.
C1_ConsumeOnce ==
    [][/\ (last'.kind = "confirm" /\ last'.outcome = "success") =>
            /\ users'[last'.user].verified
            /\ verification'[last'.user].token_email = NoToken
            /\ verification'[last'.user].expiration = NoTime
            /\ \A u \in UserIds : verification'[u].token_email # last'.tok
       /\ \A p \in ReqIds, link \in inbox :
            (ConfirmLookup(p, link) /\ link.data \in consumed) =>
                /\ last' = Response("confirm", "denied", NoUser, link.data)
                /\ UNCHANGED <<db, tasks, reqs>>
      ]_vars

\* a second Confirm with the link of a consumed token has just been denied
C1_Witness ==
    /\ last.kind = "confirm" /\ last.outcome = "denied"
    /\ last.tok \in consumed
    /\ \E u \in UserIds : users[u].verified /\ owner[last.tok] = u

\* C2: of the Confirms that present the same valid link, exactly one
\* succeeds: no Confirm succeeds with a token a Confirm has succeeded with.
C2_ExactlyOneSuccess ==
    [][(last'.kind = "confirm" /\ last'.outcome = "success") =>
            last'.tok \notin consumed
      ]_vars

\* C3: a user has one confirmable token, the one issued last: a Confirm
\* with the link of a token superseded by a later issuance for the same
\* user is denied and changes nothing, and the token issued last stays
\* stored until a Confirm clears the row.
C3_OnlyLatestConfirmable ==
    [][/\ \A p \in ReqIds, link \in inbox :
            (/\ ConfirmLookup(p, link)
             /\ \E k \in Tokens : k > link.data /\ owner[k] = owner[link.data]) =>
                /\ last' = Response("confirm", "denied", NoUser, link.data)
                /\ UNCHANGED <<db, tasks, reqs>>
       /\ \A u \in UserIds :
            issuedAt'[u] # NoTime =>
                /\ verification'[u].token_email # NoToken
                /\ owner'[verification'[u].token_email] = u
                /\ \A k \in Tokens :
                        owner'[k] = u => k <= verification'[u].token_email
      ]_vars

\* the first of two links has just been denied while the second is stored
C3_Witness ==
    /\ last.kind = "confirm" /\ last.outcome = "denied"
    /\ last.tok # NoToken
    /\ \E u \in UserIds :
            /\ owner[last.tok] = u
            /\ verification[u].token_email > last.tok
            /\ owner[verification[u].token_email] = u

\* C4: a Confirm that finds its token expired does not verify the account
\* and dispatches one task, and that dispatch issues once: a token other
\* than the expired one, expiring one hour after its issuance.
C4_ExpiredReissuesOnce ==
    [][/\ \A p \in ReqIds :
            (ConfirmCheck(p) /\ is_email_token_expired(reqs[p].exp, now)) =>
                /\ UNCHANGED db
                /\ Cardinality({t \in TaskIds : tasks'[t] # tasks[t]}) = 1
                /\ \A t \in TaskIds :
                        tasks'[t] # tasks[t] =>
                            /\ tasks'[t].st = "queued"
                            /\ tasks'[t].email = reqs[p].email
       /\ \A t \in TaskIds :
            (TaskIssue(t) /\ tasks[t].origin = "reissue" /\ tasks'[t].st = "sending") =>
                /\ tasks[t].issues = 0
                /\ \A u \in UserIds :
                        verification'[u] # verification[u] =>
                            /\ verification'[u].token_email # verification[u].token_email
                            /\ verification'[u].expiration = tasks[t].at + Hour
      ]_vars

\* C5: a row's token is cleared only by the Confirm that validated that
\* very token: the clear compares the stored token with the validated one.
C5_CompareAndClear ==
    [][\A u \in UserIds :
        (verification[u].token_email # NoToken /\ verification'[u].token_email = NoToken) =>
            /\ last'.kind = "confirm" /\ last'.outcome = "success"
            /\ last'.tok = verification[u].token_email
      ]_vars

\* C6: a row without an expiry counts as expired, and a Confirm that checks
\* a token issued at T0 goes on to verify when the clock reads at most
\* T0 + 1 hour, and when it reads more it answers "expired", dispatches the
\* reissue and leaves the tables as they are.
C6_ExpiryBoundary ==
    [][/\ is_email_token_expired(NoTime, now)
       /\ \A p \in ReqIds :
            (ConfirmCheck(p) /\ issuedAt[reqs[p].user] # NoTime) =>
                IF now <= issuedAt[reqs[p].user] + Hour
                THEN reqs'[p].pc = "flag" /\ UNCHANGED <<db, tasks>>
                ELSE /\ last' = Response("confirm", "expired", reqs[p].user, reqs[p].tok)
                     /\ UNCHANGED db
                     /\ reqs'[p] = IdleReq
      ]_vars

\* a Confirm has just found its token expired, one hour past the window
C6_Witness ==
    /\ last.kind = "confirm" /\ last.outcome = "expired"
    /\ issuedAt[last.user] # NoTime
    /\ now > issuedAt[last.user] + Hour
    /\ ~users[last.user].verified

\* C7: a verification row that holds a token holds an expiry too, and the
\* expiry is the instant the token was issued at plus one hour.
C7_ExpiryIsIssuancePlusHour ==
    \A u \in UserIds :
        verification[u].token_email # NoToken =>
            /\ verification[u].expiration # NoTime
            /\ issuedAt[u] # NoTime
            /\ verification[u].expiration = issuedAt[u] + Hour

\* a token issued after the clock has advanced is stored
C7_Witness ==
    \E u \in UserIds : verification[u].token_email # NoToken /\ issuedAt[u] > 0

\* C8: a Confirm whose link is absent, is no base64, is no Fernet frame
\* sealed under the key, or decrypts to a token no row holds, is denied: no
\* task is dispatched and the tables stay as they are.
C8_BadLinkDenied ==
    [][\A p \in ReqIds, link \in Presentable :
        (/\ \/ link.armor # "b64"
            \/ link.frame # "fernet"
            \/ link.key # ENCRYPT_KEY
            \/ \A u \in UserIds : verification[u].token_email # link.data
         /\ ConfirmLookup(p, link)) =>
            /\ last'.kind = "confirm" /\ last'.outcome = "denied"
            /\ UNCHANGED <<db, tasks, reqs, inbox>>
      ]_vars

\* a link that does not decrypt has just been denied while a token is pending
C8_Witness ==
    /\ last = Response("confirm", "denied", NoUser, NoToken)
    /\ \E u \in UserIds : verification[u].token_email # NoToken /\ ~users[u].verified

C10_EmailChangeReissues ==
    [][/\ (last'.kind = "update" /\ last'.outcome = "updated") =>
            /\ ~users'[last'.user].verified
            /\ \E t \in TaskIds : /\ tasks'[t].st # "none"
                                   /\ tasks'[t].email = users'[last'.user].email
       /\ (last'.kind = "update" /\ last'.outcome = "form_invalid") =>
            UNCHANGED <<db, tasks>>
      ]_vars

\* C11: when issuances for one user overlap, every write of a token puts
\* into the row the token and the expiry of one and the same issuance, the
\* row holds the pair written last, a Confirm with the link of another
\* token of that user is denied and changes nothing, and a Confirm with the
\* link of the stored token finds the row.
C11_LastIssueWins ==
    [][/\ \A u \in UserIds :
            (verification'[u] # verification[u] /\ verification'[u].token_email # NoToken) =>
                \E t \in TaskIds :
                    /\ TaskIssue(t) /\ tasks[t].user = u
                    /\ verification'[u].token_email = tasks[t].tok
                    /\ verification'[u].expiration = tasks[t].at + Hour
       /\ \A p \in ReqIds, link \in inbox :
            ConfirmLookup(p, link) =>
                IF \E u \in UserIds : verification[u].token_email = link.data
                THEN /\ reqs'[p].pc = "check"
                     /\ verification[reqs'[p].user].token_email = link.data
                     /\ reqs'[p].exp = verification[reqs'[p].user].expiration
                ELSE /\ last' = Response("confirm", "denied", NoUser, link.data)
                     /\ UNCHANGED <<db, tasks, reqs>>
      ]_vars

\* two issuances for one user overlapped and the one that drew its token
\* first wrote last: the link of the other has just been denied
C11_Witness ==
    /\ last.kind = "confirm" /\ last.outcome = "denied"
    /\ last.tok # NoToken /\ last.tok \notin consumed
    /\ \E u \in UserIds :
            /\ owner[last.tok] = u
            /\ verification[u].token_email # NoToken
            /\ verification[u].token_email < last.tok
            /\ verification[u].expiration = issuedAt[u] + Hour

\* C12: the token and expiry of an existing verification row change only in
\* the issuing UPDATE of a task, which leaves both set, and in the clearing
\* UPDATE of a successful Confirm, which leaves both null; a row never holds
\* one of the two without the other; a denied Confirm, the handling of an
\* expired Confirm, a Resend request and every step of an email change leave
\* all rows as they were.
C12_TokenWriters ==
    [][/\ \A u \in UserIds :
            (verification[u].exists /\ verification'[u] # verification[u]) =>
                \/ \E t \in TaskIds :
                        /\ TaskIssue(t) /\ tasks[t].user = u
                        /\ verification'[u].token_email # NoToken
                        /\ verification'[u].expiration # NoTime
                \/ \E p \in ReqIds :
                        /\ ConfirmClear(p) /\ reqs[p].user = u
                        /\ last'.outcome = "success"
                        /\ verification'[u].token_email = NoToken
                        /\ verification'[u].expiration = NoTime
       /\ \A u \in UserIds :
            (verification'[u].token_email = NoToken) <=> (verification'[u].expiration = NoTime)
       /\ (\/ last'.kind \in {"resend", "update"}
           \/ last'.kind = "confirm" /\ last'.outcome \in {"denied", "expired"}
           \/ \E p \in ReqIds : reqs'[p].kind = "update" /\ reqs'[p] # reqs[p])
            => UNCHANGED verification
      ]_vars

\* a Confirm has just been answered "expired" while the row still holds the
\* token and the expiry it was issued with
C12_Witness ==
    /\ last.kind = "confirm" /\ last.outcome = "expired"
    /\ verification[last.user].token_email = last.tok
    /\ verification[last.user].expiration = issuedAt[last.user] + Hour
    /\ \E t \in TaskIds : tasks[t].st = "queued" /\ tasks[t].origin = "reissue"

\* C13: every existing account has a verification row, whose token and
\* expiry are null as long as no token was issued for the account, and a
\* task execution that finds the account of its email never raises for
\* want of the row.
C13_AccountOwnsRecord ==
    \A u \in UserIds : Exists(u) =>
        /\ verification[u].exists
        /\ (\A k \in Tokens : owner[k] # u) =>
                verification[u].token_email = NoToken /\ verification[u].expiration = NoTime

\* C14: a registration whose form is valid saves a user that is not
\* verified and, in the one step it has between creating the verification
\* row and its closing save, queues exactly one task, for the registered
\* email; no other step of it touches the queue; a registration whose form
\* is invalid leaves users, verification rows and the queue as they were.
C14_RegisterDispatchesOnce ==
    [][/\ \A p \in ReqIds :
            ((reqs[p].kind = "register" \/ reqs'[p].kind = "register") /\ reqs'[p] # reqs[p]) =>
                CASE reqs[p].pc = "idle" ->
                        /\ reqs'[p].pc = "create_verification"
                        /\ ~Exists(reqs'[p].user)
                        /\ users'[reqs'[p].user] =
                              [email |-> reqs'[p].email, verified |-> FALSE, super |-> FALSE]
                        /\ UNCHANGED tasks
                  [] reqs[p].pc = "create_verification" ->
                        /\ reqs'[p].pc = "dispatch"
                        /\ verification'[reqs[p].user] = NewRecord
                        /\ UNCHANGED tasks
                  [] reqs[p].pc = "dispatch" ->
                        /\ reqs'[p].pc = "final_save"
                        /\ \E t \in TaskIds :
                              /\ tasks[t].st = "none"
                              /\ tasks'[t] = [NoTask EXCEPT !.st = "queued",
                                                            !.email = reqs[p].email,
                                                            !.origin = "register"]
                              /\ \A s \in TaskIds \ {t} : tasks'[s] = tasks[s]
                  [] reqs[p].pc = "final_save" ->
                        /\ reqs'[p] = IdleReq
                        /\ last'.kind = "register" /\ last'.user = reqs[p].user
                        /\ ~users'[reqs[p].user].verified
                        /\ UNCHANGED tasks
                  [] OTHER -> FALSE
       /\ (last'.kind = "register" /\ last'.outcome = "form_invalid") =>
            UNCHANGED <<users, verification, tasks>>
       /\ \A t \in TaskIds :
            (tasks[t].st = "none" /\ tasks'[t].origin = "register") =>
                \E p \in ReqIds : RegisterDispatch(p)
      ]_vars

\* a registration has just answered: its user is unverified and the queue
\* holds one task of that registration, addressed to the user's email
C14_Witness ==
    /\ last.kind = "register" /\ last.outcome = "registered"
    /\ ~users[last.user].verified
    /\ verification[last.user] = NewRecord
    /\ Cardinality({t \in TaskIds : /\ tasks[t].origin = "register"
                                     /\ tasks[t].st = "queued"
                                     /\ tasks[t].email = users[last.user].email}) = 1

\* C15: from one state, a Confirm turned away at decoding or decryption and
\* a Confirm turned away at the lookup (a superseded, consumed or never
\* issued token) end alike: the same PermissionDenied answer naming no
\* user, no mail, no row, request or task changed, nothing queued.
C15_DenialsAlike ==
    [][last'.kind = "confirm" =>
        \A p \in ReqIds, link \in Presentable :
            (DeniedAt(link) \in {"decrypt", "lookup"} /\ ConfirmLookup(p, link)) =>
                /\ [kind |-> last'.kind, outcome |-> last'.outcome, user |-> last'.user]
                      = [kind |-> "confirm", outcome |-> "denied", user |-> NoUser]
                /\ mail' = NoMail
                /\ UNCHANGED <<db, reqs, tasks, now, nextToken, hist, inbox>>
      ]_vars

\* a Confirm with the link of a superseded token has just been denied at
\* the lookup, in a state where forged text is denied at decryption
C15_Witness ==
    /\ last.kind = "confirm" /\ last.outcome = "denied"
    /\ last.tok # NoToken /\ owner[last.tok] # NoUser /\ last.tok \notin consumed
    /\ \E link \in inbox : link.data = last.tok /\ DeniedAt(link) = "lookup"
    /\ \E link \in Forged : DeniedAt(link) = "decrypt"

\* C16: a Confirm with a mailed link whose plaintext a verification row
\* holds is not denied: it loads that row, and the request then ends either
\* at the expiry check, answering "expired" when the loaded expiry is before
\* now, or after the flag and the clear, answering "success".
C16_MatchNeverDenied ==
    [][/\ \A p \in ReqIds, link \in inbox :
            ((\E u \in UserIds : verification[u].exists /\ verification[u].token_email = link.data)
              /\ ConfirmLookup(p, link)) =>
                /\ last'.outcome # "denied"
                /\ reqs'[p].kind = "confirm" /\ reqs'[p].pc = "check"
                /\ verification[reqs'[p].user].token_email = link.data
       /\ \A p \in ReqIds :
            (reqs[p].kind = "confirm" /\ reqs'[p] # reqs[p]) =>
                CASE reqs[p].pc = "check" ->
                        IF reqs[p].exp < now
                        THEN /\ reqs'[p] = IdleReq
                             /\ last' = Response("confirm", "expired", reqs[p].user, reqs[p].tok)
                        ELSE /\ reqs'[p].pc = "flag"
                             /\ last' = NoResponse
                  [] reqs[p].pc = "flag" ->
                        reqs'[p].pc = "clear" /\ last' = NoResponse
                  [] reqs[p].pc = "clear" ->
                        /\ reqs'[p] = IdleReq
                        /\ last' = Response("confirm", "success", reqs[p].user, reqs[p].tok)
                  [] OTHER -> FALSE
      ]_vars

\* a Confirm whose token is the stored one has just been answered
\* "expired": the row holding the token is past its expiry
C16_Witness ==
    /\ last.kind = "confirm" /\ last.outcome = "expired"
    /\ FindByToken(last.tok) = {last.user}
    /\ verification[last.user].expiration < now

C19_CreateOnlyVerified ==
    [][/\ \A e \in EventIds :
            (events'[e].exists /\ ~events[e].exists) =>
                \E p \in ReqIds :
                    /\ CreateSave(p)
                    /\ events'[e].creator = ereqs[p].user
                    /\ \A f \in EventIds \ {e} : events'[f] = events[f]
       /\ \A p \in ReqIds :
            (ereqs'[p].kind = "create" /\ ereqs[p].kind = "idle") =>
                users[ereqs'[p].user].verified
       /\ \A p \in ReqIds, u \in UserIds, w \in BOOLEAN :
            (~users[u].verified /\ CreateStart(p, u, w)) =>
                /\ last'.outcome \in {"not_verified", "form_invalid"}
                /\ UNCHANGED <<events, ereqs>>
      ]_vars

\* a create request has just saved its event
C19_Witness ==
    /\ last.kind = "create" /\ last.outcome = "created"
    /\ \E e \in EventIds : events[e].exists /\ events[e].creator = last.user

\* C20: the Participation table never holds two rows for one event and one
\* user; a join request of a participant and a withdraw request of a user
\* who is no participant write nothing: rows and participants_count stay.
C20_AttendIdempotent ==
    [][/\ \A e \in EventIds, u \in UserIds : participation'[e][u] <= 1
       /\ \A p \in ReqIds, e \in EventIds :
            (/\ last'.kind = "join"
             /\ events[e].exists /\ participation[e][last'.user] > 0
             /\ Attend(p, "join", last'.user, e)) =>
                UNCHANGED <<participation, events, ereqs>>
       /\ \A p \in ReqIds, e \in EventIds :
            (/\ last'.kind = "withdraw"
             /\ events[e].exists /\ participation[e][last'.user] = 0
             /\ Attend(p, "withdraw", last'.user, e)) =>
                UNCHANGED <<participation, events, ereqs>>
      ]_vars

\* a participant of an event has just asked to join it again
C20_Witness ==
    /\ last.kind = "join" /\ last.outcome = "unchanged"
    /\ \E e \in EventIds : /\ events[e].exists
                             /\ participation[e][last.user] = 1
                             /\ events[e].participants_count = Rows(e)

C22_RetryKeepsToken ==
    [][\A t \in TaskIds :
            /\ tasks'[t].issues <= 1
            /\ (tasks[t].st = "sending" /\ tasks[t].tries > 0 /\ mail' # NoMail
                 /\ tasks'[t] # tasks[t]) =>
                    \E k \in Tokens : /\ owner[k] = tasks[t].user
                                       /\ k < tasks[t].tok
                                       /\ mail'.link.data = k
      ]_vars

\* C23: a task is queued again only by an execution of it that raised, and
\* at most max_retries times, so that it is executed at most 1 + max_retries
\* times; an execution that raises after the last retry, and one that hands
\* its mail over, end the task, and an ended task never runs again.
C23_BoundedRetries ==
    [][\A t \in TaskIds :
            /\ tasks'[t].tries <= max_retries
            /\ tasks[t].st = "over" => tasks'[t] = tasks[t]
            /\ (tasks'[t].st = "queued" /\ tasks'[t] # tasks[t]) =>
                    \/ tasks[t].st = "none" /\ tasks'[t].tries = 0
                    \/ /\ TaskLoad(t) \/ TaskSendFail(t)
                       /\ tasks[t].tries < max_retries
                       /\ tasks'[t].tries = tasks[t].tries + 1
            /\ (tasks[t].st = "sending" /\ mail' # NoMail /\ tasks'[t] # tasks[t]) =>
                    tasks'[t].st = "over"
            /\ (tasks[t].tries = max_retries /\ tasks'[t] # tasks[t]) =>
                    tasks'[t].st \in {"issuing", "sending", "over"}
      ]_vars

\* a task has been retried max_retries times and its last execution is due
C23_Witness ==
    \E t \in TaskIds : tasks[t].st = "queued" /\ tasks[t].tries = max_retries

\* C24: whenever no Confirm of a user is under way, the user being verified
\* implies that the user's row holds no token.
C24_VerifiedHoldsNoToken ==
    \A u \in UserIds :
        (/\ Exists(u) /\ users[u].verified
         /\ \A p \in ReqIds : ~(reqs[p].kind = "confirm" /\ reqs[p].user = u)) =>
            verification[u].token_email = NoToken

\* C25: once every join and withdraw request on an event has completed, the
\* stored participants_count of the event equals the number of its
\* Participation rows, whatever the interleaving of the add, count and save
\* steps of different users was.
C25_CountMatchesRows ==
    (\A p \in ReqIds : ereqs[p].kind = "idle") =>
        \A e \in EventIds :
            events[e].exists => events[e].participants_count = Rows(e)

\* C26: whenever a Confirm sets is_verified to true, the token it consumes
\* was issued while the user's email was the email the account has at the
\* moment the flag is set: a link issued before an email change no longer
\* verifies once the email change has completed.
C26_VerifiesCurrentEmail ==
    [][\A p \in ReqIds :
          (/\ reqs[p].kind = "confirm" /\ reqs[p].pc = "flag"
           /\ reqs'[p].pc = "clear"
           /\ users'[reqs[p].user].verified) =>
              issuedFor[reqs[p].tok] = users'[reqs[p].user].email]_vars

\* C27: whenever a send task hands a link to the mailer, the link decrypts
\* to the token stored for that user at that moment, also when several send
\* tasks for the same user run concurrently.
C27_MailedLinkIsStored ==
    [][\A t \in TaskIds :
          (/\ tasks[t].st = "sending" /\ tasks'[t].st = "over"
           /\ mail'.link # AbsentLink) =>
              LET d == decrypt_token(mail'.link, ENCRYPT_KEY) IN
              /\ d.ok
              /\ d.value = verification'[tasks[t].user].token_email]_vars

\* C28: once a Confirm of a user has succeeded, is_verified of that user
\* stays true until an email change of that user is submitted: no other
\* request or task in progress (the registration's final save, a Resend, a
\* concurrent Confirm, an issuing task) writes it back to false.
C28_VerifiedStays ==
    [][\A u \in UserIds :
          (/\ \E tok \in consumed : owner[tok] = u
           /\ users[u].verified /\ ~users'[u].verified) =>
              \E p \in ReqIds : reqs[p].kind = "update" /\ reqs[p].user = u]_vars

\* C29: under fair scheduling every dispatched send task eventually
\* persists a fresh token, whatever requests (an email change included) run
\* between its dispatch and its execution.
C29_DispatchedTaskIssues ==
    \A t \in TaskIds :
        (tasks[t].st = "queued" /\ tasks[t].tries = 0) ~> (tasks[t].st = "sending")

====
